---- MODULE Spec2Model ----
(***************************************************************************)
(* Storage-engine core of lovestarry7788/CMU-15445: the buffer pool        *)
(* manager, its LRU-K replacer and the extendible hash table it uses as    *)
(* page directory.                                                         *)
(***************************************************************************)
EXTENDS Integers, Sequences, FiniteSets, TLC

\* ------------------------------------------------------------------ bounds
PoolSize == 2
BucketSize == 1
ReplacerK == 2
MaxPageId == 2
MaxData == 1
MaxSteps == 4
MaxCount == 3
MaxCurrSize == 4
MaxKey == 3
MaxNodeSize == 3
TreePoolSize == 6
MaxTreeSteps == 5
NumThreads == 2
MaxCalls == 4

\* --------------------------------------------------------------- constants
INVALID_PAGE_ID == 0 - 1

\* frame_id_t frame_id = -1 : the value every operation starts with
NO_FRAME == 0 - 1

PageIds == 0..MaxPageId
Data == 0..MaxData
\* pages_[0..pool_size_-1] is the frame array; index NO_FRAME is the memory
\* in front of the array, which DeletePage addresses as pages_ + (-1)
PoolFrames == 0..(PoolSize - 1)
Frames == {NO_FRAME} \cup PoolFrames

\* ------------------------------------------------------------------ helpers
EmptyFn == [x \in {} |-> 0]

Ext(f, x, v) == [y \in (DOMAIN f) \cup {x} |-> IF y = x THEN v ELSE f[y]]

Drop(f, x) == [y \in (DOMAIN f) \ {x} |-> f[y]]

SeqWithout(s, x) == SelectSeq(s, LAMBDA e : e # x)

Range(s) == {s[i] : i \in DOMAIN s}

\* With([x \in {v} |-> e]) is e for x = v (auto x = v; e), v computed once
With(f) == f[CHOOSE x \in DOMAIN f : TRUE]

\* ===================================================== extendible hash table
\* std::hash of an integer key is the key itself
Hash(k) == k

\* x & local_mask, for local_mask = 2^d (two's complement for negative x)
BitSet(x, mask) == ((x \div mask) % 2) = 1

\* ------------------------------------------------------------------ buckets
BucketInit(depth) == [depth_ |-> depth, list_ |-> << >>]

BucketPos(b, key) ==
  IF \E i \in 1..Len(b.list_) : b.list_[i][1] = key
    THEN CHOOSE i \in 1..Len(b.list_) :
           /\ b.list_[i][1] = key
           /\ \A j \in 1..(i - 1) : b.list_[j][1] # key
    ELSE 0

BucketFind(b, key) == BucketPos(b, key) # 0

BucketValue(b, key) == b.list_[BucketPos(b, key)][2]

BucketIsFull(b, size) == Len(b.list_) >= size

BucketRemove(b, key) ==
  LET p == BucketPos(b, key) IN
  IF p = 0 THEN b
  ELSE [b EXCEPT !.list_ = SubSeq(b.list_, 1, p - 1) \o SubSeq(b.list_, p + 1, Len(b.list_))]

BucketInsert_NoFullCheck(b, key, value, size) ==
  LET p == BucketPos(b, key) IN
  IF p # 0 THEN [b EXCEPT !.list_[p] = <<key, value>>]
  ELSE [b EXCEPT !.list_ = Append(b.list_, <<key, value>>)]

BucketInsert(b, key, value, size) ==
  LET p == BucketPos(b, key) IN
  IF p # 0 THEN [b EXCEPT !.list_[p] = <<key, value>>]
  ELSE IF ~BucketIsFull(b, size) THEN [b EXCEPT !.list_ = Append(b.list_, <<key, value>>)]
  ELSE b

\* -------------------------------------------------------------------- table
\* dir_ maps a slot to a bucket handle; buckets maps a handle to the bucket.
\* Handles are kept canonical: a bucket's handle is the least slot that
\* references it (a renaming of the shared_ptr identities).
HTInit(size) ==
  [bucket_size_ |-> size, global_depth_ |-> 0, num_buckets_ |-> 1,
   dir_ |-> [i \in {0} |-> 0], buckets |-> [b \in {0} |-> BucketInit(0)]]

DirSize(ht) == Cardinality(DOMAIN ht.dir_)

Canonical(ht) ==
  LET least(i) == CHOOSE j \in DOMAIN ht.dir_ :
                    /\ ht.dir_[j] = ht.dir_[i]
                    /\ \A m \in DOMAIN ht.dir_ : ht.dir_[m] = ht.dir_[i] => j <= m
      nd == [i \in DOMAIN ht.dir_ |-> least(i)]
  IN [ht EXCEPT !.dir_ = nd,
                !.buckets = [n \in {nd[i] : i \in DOMAIN nd} |-> ht.buckets[ht.dir_[n]]]]

IndexOf(ht, key) == Hash(key) % (2 ^ ht.global_depth_)

HTFind(ht, key) == BucketFind(ht.buckets[ht.dir_[IndexOf(ht, key)]], key)

HTValue(ht, key) == BucketValue(ht.buckets[ht.dir_[IndexOf(ht, key)]], key)

HTRemove_Merge(ht, key) ==
  LET h == ht.dir_[IndexOf(ht, key)]
      b == BucketRemove(ht.buckets[h], key)
  IN [ht EXCEPT !.buckets[h] = b,
                !.num_buckets_ = IF b.list_ = << >> /\ ht.num_buckets_ > 1
                                   THEN ht.num_buckets_ - 1 ELSE ht.num_buckets_]

HTRemove(ht, key) ==
  LET h == ht.dir_[IndexOf(ht, key)] IN
  [ht EXCEPT !.buckets[h] = BucketRemove(ht.buckets[h], key)]

RECURSIVE Rehash_LowBit(_, _, _, _, _, _)
Rehash_LowBit(items, i, b0, b1, local_mask, size) ==
  IF i > Len(items) THEN <<b0, b1>>
  ELSE IF BitSet(Hash(items[i][1]), 1)
    THEN Rehash_LowBit(items, i + 1, b0, BucketInsert(b1, items[i][1], items[i][2], size), local_mask, size)
    ELSE Rehash_LowBit(items, i + 1, BucketInsert(b0, items[i][1], items[i][2], size), b1, local_mask, size)

RECURSIVE Rehash(_, _, _, _, _, _)
Rehash(items, i, b0, b1, local_mask, size) ==
  IF i > Len(items) THEN <<b0, b1>>
  ELSE IF BitSet(Hash(items[i][1]), local_mask)
    THEN Rehash(items, i + 1, b0, BucketInsert(b1, items[i][1], items[i][2], size), local_mask, size)
    ELSE Rehash(items, i + 1, BucketInsert(b0, items[i][1], items[i][2], size), b1, local_mask, size)

HTInsert(ht, key, value) ==
  LET index == IndexOf(ht, key)
      old == ht.buckets[ht.dir_[index]]
  IN
  IF BucketFind(old, key) THEN ht
  ELSE IF ~BucketIsFull(old, ht.bucket_size_)
    THEN [ht EXCEPT !.buckets[ht.dir_[index]] = BucketInsert(old, key, value, ht.bucket_size_)]
  ELSE
    LET local_depth == old.depth_
        n == DirSize(ht)
        grow == local_depth = ht.global_depth_
        gd == IF grow THEN ht.global_depth_ + 1 ELSE ht.global_depth_
        dir1 == IF grow THEN [i \in 0..(2 * n - 1) |-> ht.dir_[i % n]] ELSE ht.dir_
        n1 == IF grow THEN 2 * n ELSE n
        local_mask == 2 ^ local_depth
        halves == Rehash(old.list_, 1, BucketInit(local_depth + 1), BucketInit(local_depth + 1),
                         local_mask, ht.bucket_size_)
        h0 == n1
        h1 == n1 + 1
        start == Hash(key) % local_mask
        rewired == {i \in 0..(n1 - 1) : i >= start /\ (i - start) % local_mask = 0}
        dir2 == [i \in 0..(n1 - 1) |->
                   IF i \in rewired THEN (IF BitSet(i, local_mask) THEN h1 ELSE h0) ELSE dir1[i]]
        bk2 == [h \in (DOMAIN ht.buckets) \cup {h0, h1} |->
                   IF h = h0 THEN halves[1] ELSE IF h = h1 THEN halves[2] ELSE ht.buckets[h]]
        index2 == Hash(key) % (2 ^ gd)
        target == dir2[index2]
    IN Canonical([ht EXCEPT !.global_depth_ = gd,
                            !.num_buckets_ = ht.num_buckets_ + 1,
                            !.dir_ = dir2,
                            !.buckets = [bk2 EXCEPT ![target] =
                                           BucketInsert(bk2[target], key, value, ht.bucket_size_)]])

\* ============================================================ LRU-K replacer
\* pos_ is the list iterator of the entry: the list whose node it refers to
EntryDefaultEvictable == FALSE

EntryDefault == [count_ |-> 0, evictable_ |-> EntryDefaultEvictable, pos_ |-> "none"]

ReplacerInit(k) ==
  [k_ |-> k, entries_ |-> EmptyFn, list_ |-> << >>, klist_ |-> << >>, curr_size_ |-> 0]

\* entries_[frame_id] : operator[] of the map, default entry when absent
Entry(R, f) == IF f \in DOMAIN R.entries_ THEN R.entries_[f] ELSE EntryDefault

FirstEvictable(R, s) ==
  IF \E i \in 1..Len(s) : Entry(R, s[i]).evictable_
    THEN CHOOSE i \in 1..Len(s) :
           /\ Entry(R, s[i]).evictable_
           /\ \A j \in 1..(i - 1) : ~Entry(R, s[j]).evictable_
    ELSE 0

Evict(R) ==
  LET i == FirstEvictable(R, R.list_)
      j == FirstEvictable(R, R.klist_)
  IN
  IF i # 0 THEN
    [ok |-> TRUE, frame |-> R.list_[i],
     R |-> [R EXCEPT !.list_ = SubSeq(R.list_, 1, i - 1) \o SubSeq(R.list_, i + 1, Len(R.list_)),
                     !.entries_ = Drop(R.entries_, R.list_[i]),
                     !.curr_size_ = R.curr_size_ - 1]]
  ELSE IF j # 0 THEN
    [ok |-> TRUE, frame |-> R.klist_[j],
     R |-> [R EXCEPT !.klist_ = SubSeq(R.klist_, 1, j - 1) \o SubSeq(R.klist_, j + 1, Len(R.klist_)),
                     !.entries_ = Drop(R.entries_, R.klist_[j]),
                     !.curr_size_ = R.curr_size_ - 1]]
  ELSE [ok |-> FALSE, frame |-> NO_FRAME, R |-> R]

\* list.erase(entries_[f].pos_): the node pos_ refers to is unlinked from the
\* list that holds it, whichever list object erase is called on
ErasePos(R, f) ==
  LET pos == Entry(R, f).pos_ IN
  [R EXCEPT !.list_ = IF pos = "list_" THEN SeqWithout(R.list_, f) ELSE R.list_,
            !.klist_ = IF pos = "klist_" THEN SeqWithout(R.klist_, f) ELSE R.klist_]

RecordAccess(R, f) ==
  LET e == Entry(R, f)
      count == e.count_ + 1
  IN
  IF count = 1 THEN
    [R EXCEPT !.curr_size_ = R.curr_size_ + 1,
              !.list_ = Append(R.list_, f),
              !.entries_ = Ext(R.entries_, f, [e EXCEPT !.count_ = count, !.pos_ = "list_"])]
  ELSE IF count = R.k_ THEN
    [ErasePos(R, f) EXCEPT
              !.klist_ = Append(ErasePos(R, f).klist_, f),
              !.entries_ = Ext(R.entries_, f, [e EXCEPT !.count_ = count, !.pos_ = "klist_"])]
  ELSE IF count > R.k_ THEN
    [ErasePos(R, f) EXCEPT
              !.klist_ = Append(ErasePos(R, f).klist_, f),
              !.entries_ = Ext(R.entries_, f, [e EXCEPT !.count_ = count, !.pos_ = "klist_"])]
  ELSE [R EXCEPT !.entries_ = Ext(R.entries_, f, [e EXCEPT !.count_ = count])]

\* the list object an access of f calls erase on, "none" if it erases nothing
RecordAccessErases(R, f) ==
  LET count == Entry(R, f).count_ + 1 IN
  IF count = 1 THEN "none"
  ELSE IF count = R.k_ THEN "list_"
  ELSE IF count > R.k_ THEN "klist_"
  ELSE "none"

SetEvictable(R, f, set_evictable) ==
  IF f \notin DOMAIN R.entries_ THEN R
  ELSE
    LET e == R.entries_[f]
        cs == IF e.evictable_ /\ ~set_evictable THEN R.curr_size_ - 1
              ELSE IF ~e.evictable_ /\ set_evictable THEN R.curr_size_ + 1
              ELSE R.curr_size_
    IN [R EXCEPT !.curr_size_ = cs, !.entries_[f].evictable_ = set_evictable]

\* the list object Remove of f calls erase on
RemoveErases(R, f) ==
  IF f \notin DOMAIN R.entries_ \/ ~R.entries_[f].evictable_ THEN "none"
  ELSE IF R.entries_[f].count_ < R.k_ THEN "list_"
  ELSE "klist_"

\* ok = FALSE: std::logic_error is thrown
Remove(R, f) ==
  IF f \notin DOMAIN R.entries_ THEN [ok |-> TRUE, R |-> R]
  ELSE IF ~R.entries_[f].evictable_ THEN [ok |-> FALSE, R |-> R]
  ELSE [ok |-> TRUE,
        R |-> [ErasePos(R, f) EXCEPT !.curr_size_ = R.curr_size_ - 1,
                                     !.entries_ = Drop(R.entries_, f)]]

Size(R) == R.curr_size_

\* ======================================================== buffer pool manager
\* A Page as constructed: no page, unpinned, clean, zeroed
PageDefault == [page_id_ |-> INVALID_PAGE_ID, pin_count_ |-> 0, is_dirty_ |-> FALSE, data_ |-> 0]

\* Contents of the memory at pages_ + (-1) while the pool has not written it:
\* not owned by the pool, so any value (a non-zero pin_count_ is shown as 1).
StrayContents ==
  {[page_id_ |-> INVALID_PAGE_ID, pin_count_ |-> 1, is_dirty_ |-> FALSE, data_ |-> 0]}
  \cup [page_id_ : {INVALID_PAGE_ID} \cup PageIds, pin_count_ : {0}, is_dirty_ : {FALSE}, data_ : {0}]
  \cup [page_id_ : {INVALID_PAGE_ID} \cup PageIds, pin_count_ : {0}, is_dirty_ : {TRUE}, data_ : Data \ {0}]

VARIABLES pages_, free_list_, page_table_, replacer_, next_page_id_, disk, last, steps

\* An LRUKReplacer driven directly: the object, the order of its frames'
\* first and latest accesses, and the last call with its result
VARIABLES lru, accessed, lru_last

lruVars == <<lru, accessed, lru_last>>

\* An ExtendibleHashTable driven directly: the object, the keys inserted and
\* not removed since, and the last call with its result
VARIABLES table, stored, table_last

tableVars == <<table, stored, table_last>>

poolVars == <<pages_, free_list_, page_table_, replacer_, next_page_id_, disk, last, steps>>

\* A BPlusTree on a BufferPoolManager of its own: tree is the index with its
\* pool and page bytes, inserted the key -> value pairs of the Insert calls
\* that returned (a ghost), tree_last the last call on the tree and its result.
VARIABLES tree, inserted, tree_last

treeVars == <<tree, inserted, tree_last>>

\* Threads calling one BufferPoolManager: latch_ is the pool's mutex (0 when
\* unlocked, else the thread holding it), threads each thread's position in
\* its call with the call's arguments and result, serial the same calls run
\* one after another in the order the latch was taken (a ghost).
VARIABLES latch_, threads, serial

\* Threads calling Insert on one BPlusTree: each thread's position in its
\* call, with the call's arguments, locals and result
VARIABLES writers

threadVars == <<latch_, threads, serial, writers>>

vars == <<poolVars, lruVars, tableVars, treeVars, threadVars>>

St == [pages_ |-> pages_, free_list_ |-> free_list_, page_table_ |-> page_table_,
       replacer_ |-> replacer_, next_page_id_ |-> next_page_id_, disk |-> disk]

Event(ev, page, frame, data) == [ev |-> ev, page |-> page, frame |-> frame, data |-> data]

\* DiskManager::WritePage / ReadPage on a disk that starts zeroed
WritePage(d, page_id, data) == IF page_id \in DOMAIN d THEN [d EXCEPT ![page_id] = data] ELSE d

ReadPage(d, page_id) == IF page_id \in DOMAIN d THEN d[page_id] ELSE 0

Result(S, ok, frame, page_id, io) == [S |-> S, ok |-> ok, frame |-> frame, page_id |-> page_id, io |-> io]

\* GetFrame with the victim's memory reset before the dirty check writes it out
GetFrame_ResetBeforeWrite(S) ==
  IF S.free_list_ # << >> THEN
    [ok |-> TRUE, frame |-> Head(S.free_list_), io |-> << >>, victim |-> FALSE,
     S |-> [S EXCEPT !.free_list_ = Tail(S.free_list_)]]
  ELSE
    LET ev == Evict(S.replacer_) IN
    IF ev.ok THEN
      LET f == ev.frame
          page == S.pages_[f]
          wr == IF page.is_dirty_ THEN <<Event("WritePage", page.page_id_, f, 0)>> ELSE << >>
      IN [ok |-> TRUE, frame |-> f, victim |-> TRUE,
          io |-> <<Event("ResetMemory", page.page_id_, f, 0)>> \o wr,
          S |-> [S EXCEPT !.replacer_ = ev.R,
                          !.disk = IF page.is_dirty_ THEN WritePage(S.disk, page.page_id_, 0)
                                   ELSE S.disk,
                          !.pages_[f].is_dirty_ = FALSE,
                          !.pages_[f].data_ = 0,
                          !.page_table_ = HTRemove(S.page_table_, page.page_id_)]]
    ELSE [ok |-> FALSE, frame |-> NO_FRAME, io |-> << >>, victim |-> FALSE, S |-> S]

\* The frame acquisition shared by NewPage and FetchPage: free list first,
\* else a victim of the replacer, written back if dirty, reset and unmapped.
GetFrame(S) ==
  IF S.free_list_ # << >> THEN
    [ok |-> TRUE, frame |-> Head(S.free_list_), io |-> << >>, victim |-> FALSE,
     S |-> [S EXCEPT !.free_list_ = Tail(S.free_list_)]]
  ELSE
    With([ev \in {Evict(S.replacer_)} |->
    IF ev.ok THEN
      LET f == ev.frame
          page == S.pages_[f]
          wr == IF page.is_dirty_ THEN <<Event("WritePage", page.page_id_, f, page.data_)>> ELSE << >>
      IN [ok |-> TRUE, frame |-> f, victim |-> TRUE,
          io |-> wr \o <<Event("ResetMemory", page.page_id_, f, 0)>>,
          S |-> [S EXCEPT !.replacer_ = ev.R,
                          !.disk = IF page.is_dirty_ THEN WritePage(S.disk, page.page_id_, page.data_)
                                   ELSE S.disk,
                          !.pages_[f].is_dirty_ = FALSE,
                          !.pages_[f].data_ = 0,
                          !.page_table_ = HTRemove(S.page_table_, page.page_id_)]]
    ELSE [ok |-> FALSE, frame |-> NO_FRAME, io |-> << >>, victim |-> FALSE, S |-> S]])

\* NewPage that hands out next_page_id_ without advancing it
NewPage_NoAdvance(S) ==
  With([g \in {GetFrame(S)} |->
  IF ~g.ok THEN Result(S, FALSE, NO_FRAME, INVALID_PAGE_ID, << >>)
  ELSE
    LET f == g.frame
        page_id == g.S.next_page_id_
        R1 == SetEvictable(RecordAccess(g.S.replacer_, f), f, FALSE)
    IN Result([g.S EXCEPT !.pages_[f].page_id_ = page_id,
                          !.pages_[f].pin_count_ = g.S.pages_[f].pin_count_ + 1,
                          !.replacer_ = R1,
                          !.page_table_ = HTInsert(g.S.page_table_, page_id, f)],
              TRUE, f, page_id, g.io \o <<Event("Install", page_id, f, 0)>>)])

\* NewPage that allocates the page id before it knows it has a frame
NewPage_AllocatesFirst(S) ==
  LET g == GetFrame(S) IN
  IF ~g.ok THEN Result([S EXCEPT !.next_page_id_ = S.next_page_id_ + 1], FALSE, NO_FRAME,
                       INVALID_PAGE_ID, << >>)
  ELSE
    LET f == g.frame
        page_id == g.S.next_page_id_
        R1 == SetEvictable(RecordAccess(g.S.replacer_, f), f, FALSE)
    IN Result([g.S EXCEPT !.next_page_id_ = page_id + 1,
                          !.pages_[f].page_id_ = page_id,
                          !.pages_[f].pin_count_ = g.S.pages_[f].pin_count_ + 1,
                          !.replacer_ = R1,
                          !.page_table_ = HTInsert(g.S.page_table_, page_id, f)],
              TRUE, f, page_id, g.io \o <<Event("Install", page_id, f, 0)>>)

NewPage(S) ==
  With([g \in {GetFrame(S)} |->
  IF ~g.ok THEN Result(S, FALSE, NO_FRAME, INVALID_PAGE_ID, << >>)
  ELSE
    LET f == g.frame
        page_id == g.S.next_page_id_
        R1 == SetEvictable(RecordAccess(g.S.replacer_, f), f, FALSE)
    IN Result([g.S EXCEPT !.next_page_id_ = page_id + 1,
                          !.pages_[f].page_id_ = page_id,
                          !.pages_[f].pin_count_ = g.S.pages_[f].pin_count_ + 1,
                          !.replacer_ = R1,
                          !.page_table_ = HTInsert(g.S.page_table_, page_id, f)],
              TRUE, f, page_id, g.io \o <<Event("Install", page_id, f, 0)>>)])

FetchPage(S, page_id) ==
  IF HTFind(S.page_table_, page_id) THEN
    LET f == HTValue(S.page_table_, page_id) IN
    Result([S EXCEPT !.pages_[f].pin_count_ = S.pages_[f].pin_count_ + 1,
                     !.replacer_ = SetEvictable(RecordAccess(S.replacer_, f), f, FALSE)],
           TRUE, f, page_id, << >>)
  ELSE
    With([g \in {GetFrame(S)} |->
    IF ~g.ok THEN Result(S, FALSE, NO_FRAME, page_id, << >>)
    ELSE
      LET f == g.frame
          R1 == SetEvictable(RecordAccess(g.S.replacer_, f), f, FALSE)
      IN Result([g.S EXCEPT !.pages_[f].page_id_ = page_id,
                            !.pages_[f].pin_count_ = g.S.pages_[f].pin_count_ + 1,
                            !.pages_[f].data_ = ReadPage(g.S.disk, page_id),
                            !.replacer_ = R1,
                            !.page_table_ = HTInsert(g.S.page_table_, page_id, f)],
                TRUE, f, page_id,
                g.io \o <<Event("Install", page_id, f, 0),
                          Event("ReadPage", page_id, f, ReadPage(g.S.disk, page_id))>>)])

\* UnpinPage that marks the frame evictable on every accepted unpin
UnpinPage_AlwaysEvictable(S, page_id, is_dirty) ==
  IF HTFind(S.page_table_, page_id) THEN
    LET f == HTValue(S.page_table_, page_id)
        page == S.pages_[f]
    IN
    IF page.pin_count_ <= 0 THEN Result(S, FALSE, f, page_id, << >>)
    ELSE Result([S EXCEPT !.pages_[f].pin_count_ = page.pin_count_ - 1,
                          !.replacer_ = SetEvictable(S.replacer_, f, TRUE),
                          !.pages_[f].is_dirty_ = page.is_dirty_ \/ is_dirty],
                TRUE, f, page_id, << >>)
  ELSE Result(S, FALSE, NO_FRAME, page_id, << >>)

\* UnpinPage whose guard is pin_count_ < 0 instead of pin_count_ <= 0
UnpinPage_NoPinCheck(S, page_id, is_dirty) ==
  IF HTFind(S.page_table_, page_id) THEN
    LET f == HTValue(S.page_table_, page_id)
        page == S.pages_[f]
    IN
    IF page.pin_count_ < 0 THEN Result(S, FALSE, f, page_id, << >>)
    ELSE IF page.pin_count_ - 1 = 0 THEN
      Result([S EXCEPT !.pages_[f].pin_count_ = 0,
                       !.replacer_ = SetEvictable(S.replacer_, f, TRUE),
                       !.pages_[f].is_dirty_ = page.is_dirty_ \/ is_dirty],
             TRUE, f, page_id, << >>)
    ELSE Result([S EXCEPT !.pages_[f].pin_count_ = page.pin_count_ - 1], TRUE, f, page_id, << >>)
  ELSE Result(S, FALSE, NO_FRAME, page_id, << >>)

UnpinPage(S, page_id, is_dirty) ==
  IF HTFind(S.page_table_, page_id) THEN
    LET f == HTValue(S.page_table_, page_id)
        page == S.pages_[f]
    IN
    IF page.pin_count_ <= 0 THEN Result(S, FALSE, f, page_id, << >>)
    ELSE IF page.pin_count_ - 1 = 0 THEN
      Result([S EXCEPT !.pages_[f].pin_count_ = 0,
                       !.replacer_ = SetEvictable(S.replacer_, f, TRUE),
                       !.pages_[f].is_dirty_ = page.is_dirty_ \/ is_dirty],
             TRUE, f, page_id, << >>)
    ELSE Result([S EXCEPT !.pages_[f].pin_count_ = page.pin_count_ - 1], TRUE, f, page_id, << >>)
  ELSE Result(S, FALSE, NO_FRAME, page_id, << >>)

\* FlushPage that skips the write when the frame is clean
FlushPage_OnlyIfDirty(S, page_id) ==
  IF HTFind(S.page_table_, page_id) THEN
    LET f == HTValue(S.page_table_, page_id) IN
    IF S.pages_[f].is_dirty_ THEN
      Result([S EXCEPT !.disk = WritePage(S.disk, page_id, S.pages_[f].data_),
                       !.pages_[f].is_dirty_ = FALSE],
             TRUE, f, page_id, <<Event("WritePage", page_id, f, S.pages_[f].data_)>>)
    ELSE Result(S, TRUE, f, page_id, << >>)
  ELSE Result(S, FALSE, NO_FRAME, page_id, << >>)

FlushPage(S, page_id) ==
  IF HTFind(S.page_table_, page_id) THEN
    LET f == HTValue(S.page_table_, page_id) IN
    Result([S EXCEPT !.disk = WritePage(S.disk, page_id, S.pages_[f].data_),
                     !.pages_[f].is_dirty_ = FALSE],
           TRUE, f, page_id, <<Event("WritePage", page_id, f, S.pages_[f].data_)>>)
  ELSE Result(S, FALSE, NO_FRAME, page_id, << >>)

RECURSIVE FlushFrom(_, _, _)
FlushFrom(S, i, io) ==
  IF i >= PoolSize THEN Result(S, TRUE, NO_FRAME, INVALID_PAGE_ID, io)
  ELSE IF S.pages_[i].page_id_ # INVALID_PAGE_ID THEN
    FlushFrom([S EXCEPT !.disk = WritePage(S.disk, S.pages_[i].page_id_, S.pages_[i].data_),
                        !.pages_[i].is_dirty_ = FALSE],
              i + 1, Append(io, Event("WritePage", S.pages_[i].page_id_, i, S.pages_[i].data_)))
  ELSE FlushFrom(S, i + 1, io)

FlushAllPages(S) == FlushFrom(S, 0, << >>)

\* The pool has put pages_[-1] on its free list (and possibly used it since)
Claimed(S) == NO_FRAME \in Range(S.free_list_) \cup DOMAIN S.replacer_.entries_

\* stray: what a read of pages_[-1] yields while the pool has not written it
DeletePage(S, page_id, stray) ==
  IF HTFind(S.page_table_, page_id) THEN Result(S, TRUE, HTValue(S.page_table_, page_id), page_id, << >>)
  ELSE
    LET f == NO_FRAME
        page == IF Claimed(S) THEN S.pages_[f] ELSE stray
    IN
    IF page.pin_count_ # 0 THEN Result(S, FALSE, f, page_id, << >>)
    ELSE
      Result([S EXCEPT !.disk = IF page.is_dirty_ THEN WritePage(S.disk, page_id, page.data_) ELSE S.disk,
                       !.page_table_ = HTRemove(S.page_table_, page.page_id_),
                       !.free_list_ = Append(S.free_list_, f),
                       !.pages_[f] = PageDefault],
             TRUE, f, page_id,
             IF page.is_dirty_ THEN <<Event("WritePage", page_id, f, page.data_)>> ELSE << >>)

\* A holder of a pin writes the bytes of its page
Mutate(S, f, d) == Result([S EXCEPT !.pages_[f].data_ = d], TRUE, f, S.pages_[f].page_id_, << >>)

\* --------------------------------------------------------------- the machine
Apply(r, op, is_dirty) ==
  /\ steps < MaxSteps
  /\ r.S.next_page_id_ <= MaxPageId + 1
  /\ steps' = steps + 1
  /\ pages_' = r.S.pages_
  /\ free_list_' = r.S.free_list_
  /\ page_table_' = r.S.page_table_
  /\ replacer_' = r.S.replacer_
  /\ next_page_id_' = r.S.next_page_id_
  /\ disk' = r.S.disk
  /\ last' = [op |-> op, page_id |-> r.page_id, is_dirty |-> is_dirty,
              ok |-> r.ok, frame |-> r.frame, io |-> r.io]
  /\ UNCHANGED <<lruVars, tableVars, treeVars, threadVars>>

\* the table as constructed, no call made
TableInit(size) ==
  /\ table = HTInit(size)
  /\ stored = {}
  /\ table_last = [op |-> "init", key |-> 0, value |-> 0, ok |-> TRUE]

\* the replacer as constructed, no call made
LruInit(k) ==
  /\ lru = ReplacerInit(k)
  /\ accessed = [first |-> << >>, latest |-> << >>]
  /\ lru_last = [op |-> "init", frame |-> NO_FRAME, flag |-> FALSE, ok |-> TRUE, erases |-> "none",
                 foreign |-> FALSE, aborted |-> FALSE]

\* no index is constructed
NoTree ==
  /\ tree = << >>
  /\ inserted = << >>
  /\ tree_last = << >>

\* no thread is started
NoThreads ==
  /\ latch_ = 0
  /\ threads = << >>
  /\ serial = << >>
  /\ writers = << >>

PoolInit ==
  /\ pages_ = [f \in Frames |-> PageDefault]
  /\ steps = 0
  /\ free_list_ = [i \in 1..PoolSize |-> i - 1]
  /\ page_table_ = HTInit(BucketSize)
  /\ replacer_ = ReplacerInit(ReplacerK)
  /\ next_page_id_ = 0
  /\ disk = [p \in PageIds |-> 0]
  /\ last = [op |-> "init", page_id |-> INVALID_PAGE_ID, is_dirty |-> FALSE,
             ok |-> TRUE, frame |-> NO_FRAME, io |-> << >>]

Init == PoolInit /\ LruInit(ReplacerK) /\ TableInit(BucketSize) /\ NoTree /\ NoThreads

DoNewPage == Apply(NewPage(St), "NewPage", FALSE)

DoFetchPage == \E p \in PageIds : Apply(FetchPage(St, p), "FetchPage", FALSE)

DoUnpinPage == \E p \in PageIds, d \in BOOLEAN : Apply(UnpinPage(St, p, d), "UnpinPage", d)

DoFlushPage == \E p \in PageIds : Apply(FlushPage(St, p), "FlushPage", FALSE)

DoFlushAllPages == Apply(FlushAllPages(St), "FlushAllPages", FALSE)

DoDeletePage ==
  \E p \in PageIds :
    \E g \in (IF Claimed(St) \/ HTFind(page_table_, p) THEN {pages_[NO_FRAME]} ELSE StrayContents) :
      Apply(DeletePage(St, p, g), "DeletePage", FALSE)

DoMutate ==
  \E f \in Frames, d \in Data \ {0} :
    /\ pages_[f].pin_count_ > 0
    /\ pages_[f].page_id_ # INVALID_PAGE_ID
    /\ Apply(Mutate(St, f, d), "Mutate", FALSE)

Next ==
  \/ DoNewPage
  \/ DoFetchPage
  \/ DoUnpinPage
  \/ DoFlushPage
  \/ DoFlushAllPages
  \/ DoDeletePage
  \/ DoMutate

Spec == Init /\ [][Next]_vars

\* ================================================================ properties
Resident(p) == HTFind(page_table_, p)

FrameOf(p) == HTValue(page_table_, p)

Tracked == DOMAIN replacer_.entries_

\* position of the first event of a kind in an I/O trace, 0 if there is none
EventPos(io, ev) ==
  IF \E i \in 1..Len(io) : io[i].ev = ev
    THEN CHOOSE i \in 1..Len(io) : io[i].ev = ev /\ \A j \in 1..(i - 1) : io[j].ev # ev
    ELSE 0

\* the step is a NewPage, or a FetchPage of a page the directory does not map
NeedsFrame ==
  \/ last'.op = "NewPage"
  \/ last'.op = "FetchPage" /\ ~Resident(last'.page_id)

NoFrameAvailable ==
  /\ free_list_ = << >>
  /\ \A f \in Tracked : ~replacer_.entries_[f].evictable_

\* C1: every directory entry page_id -> frame has frames[frame].page_id ==
\* page_id, and every pool frame that holds a page has that page id mapped to
\* it in the directory.
C1_DirectoryConsistency ==
  /\ \A p \in PageIds : Resident(p) => pages_[FrameOf(p)].page_id_ = p
  /\ \A f \in PoolFrames :
       pages_[f].page_id_ # INVALID_PAGE_ID =>
         Resident(pages_[f].page_id_) /\ FrameOf(pages_[f].page_id_) = f

\* C2: pin balance; every pinned frame's page is mapped to that frame, so that
\* each outstanding pin can be released, and an UnpinPage of the page id that
\* NewPage or FetchPage has just returned is accepted.
C2_PinBalance ==
  /\ \A f \in PoolFrames :
       pages_[f].pin_count_ > 0 =>
         Resident(pages_[f].page_id_) /\ FrameOf(pages_[f].page_id_) = f
  /\ (last.op \in {"NewPage", "FetchPage"} /\ last.ok) =>
       /\ pages_[last.frame].pin_count_ > 0
       /\ UnpinPage(St, last.page_id, FALSE).ok

\* C3: a frame tracked by the replacer is evictable iff its pin count is 0,
\* and the victim that NewPage or FetchPage takes from the replacer has pin
\* count 0 at the moment it is taken.
C3_EvictionExclusion ==
  /\ [](\A f \in Tracked : replacer_.entries_[f].evictable_ <=> pages_[f].pin_count_ = 0)
  /\ [][(NeedsFrame /\ last'.ok /\ free_list_ = << >>) =>
          /\ pages_[last'.frame].pin_count_ = 0
          /\ last'.frame \in Tracked
          /\ replacer_.entries_[last'.frame].evictable_]_vars

C3_Witness ==
  /\ last.op \in {"NewPage", "FetchPage"}
  /\ last.ok
  /\ EventPos(last.io, "ResetMemory") # 0
  /\ \E f \in PoolFrames : f # last.frame /\ pages_[f].pin_count_ > 0

\* C4: an accepted UnpinPage(p, is_dirty = true) leaves the frame of p dirty,
\* whether or not the pin count reached zero in that call.
C4_DirtyHintKept ==
  (last.op = "UnpinPage" /\ last.ok /\ last.is_dirty) => pages_[last.frame].is_dirty_

\* C5: when NewPage or FetchPage reuses an evicted frame that is dirty, the
\* old page id and the old data are written to disk before the memory is
\* reset, before the new page id is installed and before the new page is read;
\* afterwards the frame is clean.
C5_WriteBackBeforeReuse ==
  [][(NeedsFrame /\ last'.ok /\ free_list_ = << >> /\ pages_[last'.frame].is_dirty_) =>
       LET f == last'.frame
           io == last'.io
       IN /\ Len(io) >= 3
          /\ io[1] = Event("WritePage", pages_[f].page_id_, f, pages_[f].data_)
          /\ EventPos(io, "ResetMemory") > 1
          /\ EventPos(io, "Install") > EventPos(io, "ResetMemory")
          /\ last'.op = "FetchPage" => EventPos(io, "ReadPage") > EventPos(io, "Install")
          /\ \A i \in 2..Len(io) : io[i].ev # "WritePage"
          /\ ~pages_'[f].is_dirty_
          /\ pages_[f].page_id_ # last'.page_id =>
               ReadPage(disk', pages_[f].page_id_) = pages_[f].data_]_vars

C5_Witness ==
  /\ last.op = "FetchPage"
  /\ last.ok
  /\ Len(last.io) = 4
  /\ last.io[1].ev = "WritePage"
  /\ last.io[1].page # last.page_id
  /\ pages_[last.frame].page_id_ = last.page_id
  /\ ~pages_[last.frame].is_dirty_

\* C6: NewPage, and FetchPage of a page the directory does not map, return
\* none exactly when the free list is empty and no tracked frame is evictable;
\* then every pool frame is pinned, no page id is allocated and frames,
\* directory, free list, replacer and disk are unchanged.
C6_CapacityExhaustion ==
  [][NeedsFrame =>
       /\ (~last'.ok) <=> NoFrameAvailable
       /\ (~last'.ok) =>
            /\ UNCHANGED <<pages_, free_list_, page_table_, replacer_, next_page_id_, disk>>
            /\ \A f \in PoolFrames : pages_[f].pin_count_ > 0]_vars

C6_Witness ==
  /\ last.op = "NewPage"
  /\ ~last.ok
  /\ free_list_ = << >>
  /\ \A f \in PoolFrames : pages_[f].pin_count_ > 0

C8_DeletePageRefusals ==
  [][last'.op = "DeletePage" =>
       LET p == last'.page_id IN
       /\ (Resident(p) /\ pages_[FrameOf(p)].pin_count_ > 0) =>
            /\ ~last'.ok
            /\ UNCHANGED <<pages_, free_list_, page_table_, replacer_, next_page_id_, disk>>
       /\ ~Resident(p) =>
            /\ last'.ok
            /\ UNCHANGED <<pages_, free_list_, page_table_, replacer_, next_page_id_, disk>>]_vars

\* C9: DeletePage of a page in the directory with pin count 0 returns true;
\* afterwards the page id is not in the directory, its frame is in the free
\* list with page id INVALID and a clear dirty flag, and dirty data has been
\* written to disk.
C9_DeletePageFrees ==
  [][last'.op = "DeletePage" =>
       LET p == last'.page_id IN
       (Resident(p) /\ pages_[FrameOf(p)].pin_count_ = 0) =>
         LET f == FrameOf(p) IN
         /\ last'.ok
         /\ ~HTFind(page_table_', p)
         /\ f \in Range(free_list_')
         /\ pages_'[f].page_id_ = INVALID_PAGE_ID
         /\ ~pages_'[f].is_dirty_
         /\ pages_[f].is_dirty_ => disk'[p] = pages_[f].data_]_vars

LruFrames == PoolFrames

\* position of x in a sequence without repetition
Pos(s, x) == CHOOSE i \in 1..Len(s) : s[i] = x

\* erase is called on one list with the iterator of a node of the other list:
\* undefined.  Unchecked libraries unlink the node from the list that holds it
\* (ErasePos); checked iterators end the program.
ForeignErase(R, f, erases) == erases # "none" /\ erases # Entry(R, f).pos_

\* A call returns: the object is R, the call and its result are recorded
LruStep(R, op, f, flag, ok, erases) ==
  /\ ~lru_last.aborted
  /\ R.curr_size_ <= MaxCurrSize
  /\ \A g \in DOMAIN R.entries_ : R.entries_[g].count_ <= MaxCount
  /\ lru' = R
  /\ lru_last' = [op |-> op, frame |-> f, flag |-> flag, ok |-> ok, erases |-> erases,
                  foreign |-> ForeignErase(lru, f, erases), aborted |-> FALSE]
  /\ UNCHANGED <<poolVars, tableVars, treeVars, threadVars>>

\* the program is ended inside the call
LruAbort(op, f, erases) ==
  /\ ~lru_last.aborted
  /\ lru_last' = [op |-> op, frame |-> f, flag |-> FALSE, ok |-> FALSE, erases |-> erases,
                  foreign |-> TRUE, aborted |-> TRUE]
  /\ UNCHANGED <<lru, accessed, poolVars, tableVars, treeVars, threadVars>>

Forget(f) ==
  [first |-> SeqWithout(accessed.first, f), latest |-> SeqWithout(accessed.latest, f)]

DoRecordAccess ==
  \E f \in LruFrames :
    LET erases == RecordAccessErases(lru, f) IN
    \/ /\ LruStep(RecordAccess(lru, f), "RecordAccess", f, FALSE, TRUE, erases)
       /\ accessed' = [first |-> IF f \in DOMAIN lru.entries_ THEN accessed.first
                                  ELSE Append(accessed.first, f),
                       latest |-> Append(SeqWithout(accessed.latest, f), f)]
    \/ ForeignErase(lru, f, erases) /\ LruAbort("RecordAccess", f, erases)

DoSetEvictable ==
  \E f \in LruFrames, b \in BOOLEAN :
    /\ LruStep(SetEvictable(lru, f, b), "SetEvictable", f, b, TRUE, "none")
    /\ UNCHANGED accessed

DoEvict ==
  LET r == Evict(lru) IN
  /\ LruStep(r.R, "Evict", r.frame, FALSE, r.ok, "none")
  /\ accessed' = IF r.ok THEN Forget(r.frame) ELSE accessed

DoRemove ==
  \E f \in LruFrames :
    LET r == Remove(lru, f)
        erases == RemoveErases(lru, f)
    IN
    \/ /\ LruStep(r.R, "Remove", f, FALSE, r.ok, erases)
       /\ accessed' = IF r.ok THEN Forget(f) ELSE accessed
    \/ ForeignErase(lru, f, erases) /\ LruAbort("Remove", f, erases)

InitLRU == PoolInit /\ TableInit(BucketSize) /\ NoTree /\ NoThreads /\ \E k \in 1..ReplacerK : LruInit(k)

NextLRU ==
  \/ DoRecordAccess
  \/ DoSetEvictable
  \/ DoEvict
  \/ DoRemove

SpecLRU == InitLRU /\ [][NextLRU]_vars

LruTracked == DOMAIN lru.entries_

LruEvictable == {f \in LruTracked : lru.entries_[f].evictable_}

\* C11: Evict returns, when some evictable frame has count < k, the one of
\* them whose first access since it became tracked is the earliest; otherwise
\* the evictable frame (count >= k) whose latest access is the oldest.
C11_VictimOrder ==
  [][(lru_last'.op = "Evict" /\ lru_last' # lru_last) =>
       LET under == {f \in LruEvictable : lru.entries_[f].count_ < lru.k_}
           v == lru_last'.frame
       IN /\ under # {} =>
               /\ lru_last'.ok
               /\ v \in under
               /\ \A g \in under \ {v} : Pos(accessed.first, v) < Pos(accessed.first, g)
          /\ (under = {} /\ LruEvictable # {}) =>
               /\ lru_last'.ok
               /\ v \in LruEvictable
               /\ \A g \in LruEvictable \ {v} :
                    Pos(accessed.latest, v) < Pos(accessed.latest, g)]_vars

\* number of nodes of a list that hold x
Count(s, x) == Cardinality({i \in 1..Len(s) : s[i] = x})

\* C12: every tracked frame has exactly one node, in list_ iff its count is
\* below k and in klist_ iff its count is at least k, its pos_ refers to
\* that list, and no call erases a node through the other list.
C12_ListInvariant ==
  /\ \A f \in LruTracked :
       LET e == lru.entries_[f] IN
       /\ Count(lru.list_, f) + Count(lru.klist_, f) = 1
       /\ Count(lru.list_, f) = 1 <=> e.count_ < lru.k_
       /\ Count(lru.klist_, f) = 1 <=> e.count_ >= lru.k_
       /\ e.pos_ = (IF Count(lru.list_, f) = 1 THEN "list_" ELSE "klist_")
  /\ ~lru_last.foreign

\* C13: Size() is the number of tracked frames whose evictable flag is set;
\* SetEvictable changes it only when the flag changes (a second call with the
\* same flag changes nothing) and does nothing for an untracked frame; a first
\* RecordAccess of a frame followed by SetEvictable(frame, false) leaves
\* Size() as it was.
C13_Size ==
  /\ Size(lru) = Cardinality(LruEvictable)
  /\ \A f \in LruFrames, b \in BOOLEAN :
       LET R1 == SetEvictable(lru, f, b) IN
       /\ f \notin LruTracked => R1 = lru
       /\ f \in LruTracked =>
            Size(R1) = Size(lru) + (IF lru.entries_[f].evictable_ = b THEN 0
                                    ELSE IF b THEN 1 ELSE 0 - 1)
       /\ SetEvictable(R1, f, b) = R1
  /\ \A f \in LruFrames \ LruTracked :
       Size(SetEvictable(RecordAccess(lru, f), f, FALSE)) = Size(lru)

\* C14: Remove of a tracked frame that is not evictable throws and changes
\* nothing; of an untracked frame it changes nothing; of a tracked evictable
\* frame it erases the frame's node through the list that holds it, erases the
\* entry, so that the next RecordAccess counts from 1, and lowers Size() by 1.
C14_Remove ==
  [][(lru_last'.op = "Remove" /\ lru_last' # lru_last) =>
       LET f == lru_last'.frame IN
       /\ ~lru_last'.aborted
       /\ (f \in LruTracked /\ ~lru.entries_[f].evictable_) =>
            ~lru_last'.ok /\ lru' = lru
       /\ f \notin LruTracked => lru_last'.ok /\ lru' = lru
       /\ (f \in LruTracked /\ lru.entries_[f].evictable_) =>
            /\ lru_last'.ok
            /\ lru_last'.erases = lru.entries_[f].pos_
            /\ lru'.list_ = SeqWithout(lru.list_, f)
            /\ lru'.klist_ = SeqWithout(lru.klist_, f)
            /\ lru'.entries_ = Drop(lru.entries_, f)
            /\ RecordAccess(lru', f).entries_[f].count_ = 1
            /\ Size(lru') = Size(lru) - 1]_vars

\* ================================================ the hash table on its own
Keys == 0..MaxKey

\* V is opaque to the table: two values tell a replaced value from the old one
Values == {0, 1}

GetGlobalDepth(ht) == ht.global_depth_

GetLocalDepth(ht, dir_index) == ht.buckets[ht.dir_[dir_index]].depth_

GetNumBuckets(ht) == ht.num_buckets_

TableStep(ht, op, key, value, ok) ==
  /\ table' = ht
  /\ table_last' = [op |-> op, key |-> key, value |-> value, ok |-> ok]
  /\ UNCHANGED <<poolVars, lruVars, treeVars, threadVars>>

DoInsert ==
  \E k \in Keys, v \in Values :
    /\ TableStep(HTInsert(table, k, v), "Insert", k, v, TRUE)
    /\ stored' = stored \cup {k}

DoRemoveKey ==
  \E k \in Keys :
    /\ TableStep(HTRemove(table, k), "Remove", k, 0, HTFind(table, k))
    /\ stored' = stored \ {k}

DoFind ==
  \E k \in Keys :
    /\ TableStep(table, "Find", k, IF HTFind(table, k) THEN HTValue(table, k) ELSE 0,
                 HTFind(table, k))
    /\ UNCHANGED stored

InitHT == PoolInit /\ LruInit(ReplacerK) /\ NoTree /\ NoThreads /\ \E size \in 1..BucketSize : TableInit(size)

NextHT ==
  \/ DoInsert
  \/ DoRemoveKey
  \/ DoFind

SpecHT == InitHT /\ [][NextHT]_vars

\* C15: right after Insert(k, v), Find(k) is true and yields v, and every
\* other key inserted earlier and not removed since is still found.
C15_InsertFindRoundTrip ==
  /\ table_last.op = "Insert" =>
       /\ HTFind(table, table_last.key)
       /\ HTValue(table, table_last.key) = table_last.value
  /\ \A k \in stored : HTFind(table, k)

\* number of pairs held by the buckets
NumPairs(ht) ==
  Cardinality(UNION {{<<h, i>> : i \in 1..Len(ht.buckets[h].list_)} : h \in DOMAIN ht.buckets})

\* number of distinct buckets the directory refers to
DistinctBuckets(ht) == Cardinality({ht.dir_[i] : i \in DOMAIN ht.dir_})

\* C16: Insert(k, v2) on a table that holds k replaces the value, so that
\* Find(k) yields v2, and leaves the number of pairs, the global depth and the
\* number of buckets unchanged.
C16_Overwrite ==
  [][(table_last'.op = "Insert" /\ HTFind(table, table_last'.key)) =>
       /\ HTFind(table', table_last'.key)
       /\ HTValue(table', table_last'.key) = table_last'.value
       /\ NumPairs(table') = NumPairs(table)
       /\ GetGlobalDepth(table') = GetGlobalDepth(table)
       /\ GetNumBuckets(table') = GetNumBuckets(table)]_vars

\* C17: a key stored in the bucket of slot i agrees with i on the low
\* local-depth bits of its hash, and is in the bucket of slot IndexOf(key).
C17_Placement ==
  \A i \in DOMAIN table.dir_ :
    LET b == table.buckets[table.dir_[i]] IN
    \A n \in 1..Len(b.list_) :
      LET k == b.list_[n][1] IN
      /\ Hash(k) % (2 ^ b.depth_) = i % (2 ^ b.depth_)
      /\ table.dir_[IndexOf(table, k)] = table.dir_[i]

C17_Witness ==
  /\ GetGlobalDepth(table) = 2
  /\ \E i \in DOMAIN table.dir_ :
       /\ i >= 2
       /\ GetLocalDepth(table, i) = 2
       /\ table.buckets[table.dir_[i]].list_ # << >>
  /\ \E i \in DOMAIN table.dir_ :
       /\ GetLocalDepth(table, i) = 1
       /\ table.buckets[table.dir_[i]].list_ # << >>

\* C18: the directory has 2^global_depth slots; no local depth is above the
\* global depth; two slots refer to the same bucket iff they agree on the low
\* local-depth bits of that bucket; no bucket holds more than bucket_size
\* pairs; no key is stored twice.
C18_DirectoryStructure ==
  /\ DOMAIN table.dir_ = 0..(2 ^ GetGlobalDepth(table) - 1)
  /\ \A i \in DOMAIN table.dir_ :
       LET d == GetLocalDepth(table, i) IN
       /\ d <= GetGlobalDepth(table)
       /\ \A j \in DOMAIN table.dir_ :
            table.dir_[i] = table.dir_[j] <=> i % (2 ^ d) = j % (2 ^ d)
       /\ Len(table.buckets[table.dir_[i]].list_) <= table.bucket_size_
  /\ \A k \in Keys :
       Cardinality({<<h, n>> \in UNION {{<<g, m>> : m \in 1..Len(table.buckets[g].list_)} :
                                          g \in DOMAIN table.buckets} :
                      table.buckets[h].list_[n][1] = k}) <= 1

C18_Witness ==
  /\ GetGlobalDepth(table) = 2
  /\ \E i, j \in DOMAIN table.dir_ :
       /\ i # j
       /\ table.dir_[i] = table.dir_[j]
       /\ Len(table.buckets[table.dir_[i]].list_) = table.bucket_size_
  /\ NumPairs(table) >= 3

\* Insert of key takes the branch that splits the bucket of the key's slot
Splits(ht, key) ==
  /\ ~HTFind(ht, key)
  /\ BucketIsFull(ht.buckets[ht.dir_[IndexOf(ht, key)]], ht.bucket_size_)

\* C19: an Insert raises the global depth by one exactly when it splits a
\* bucket whose local depth equals the global depth, and otherwise leaves it;
\* a split raises the number of buckets by exactly one; Remove changes
\* neither; neither ever decreases; GetNumBuckets is the number of distinct
\* buckets the directory refers to.
C19_Growth ==
  /\ [](GetNumBuckets(table) = DistinctBuckets(table))
  /\ [][table_last'.op = "Insert" =>
          LET split == Splits(table, table_last'.key)
              top == GetLocalDepth(table, IndexOf(table, table_last'.key)) = GetGlobalDepth(table)
          IN /\ GetGlobalDepth(table') = GetGlobalDepth(table) + (IF split /\ top THEN 1 ELSE 0)
             /\ GetNumBuckets(table') = GetNumBuckets(table) + (IF split THEN 1 ELSE 0)
             /\ DistinctBuckets(table') = DistinctBuckets(table) + (IF split THEN 1 ELSE 0)]_vars
  /\ [][table_last'.op = "Remove" =>
          /\ GetGlobalDepth(table') = GetGlobalDepth(table)
          /\ GetNumBuckets(table') = GetNumBuckets(table)]_vars
  /\ [][/\ GetGlobalDepth(table') >= GetGlobalDepth(table)
        /\ GetNumBuckets(table') >= GetNumBuckets(table)]_vars

C19_Witness ==
  /\ table_last.op = "Insert"
  /\ GetGlobalDepth(table) = 2
  /\ GetNumBuckets(table) > GetGlobalDepth(table) + 1

\* ================================================================== B+ tree
\* HEADER_PAGE_ID: the page that holds the record (index name, root page id)
HEADER_PAGE_ID == 0

\* A key of all zero bytes, as in zeroed page memory and in KeyType{}
ZeroKey == 0

\* A value of all zero bytes, and the value of ValueType{} (RID{}: no page)
ZeroValue == 0

DefaultValue == 0 - 1

\* MappingType{}: what value-initialisation of the pair yields
MappingDefault == <<ZeroKey, DefaultValue>>

\* slots of array_ that a node of at most MaxNodeSize entries touches
Slots == 0..MaxNodeSize

\* Page memory as ResetMemory leaves it, read through a node pointer; the two
\* last fields are the header page's record (index name, root page id)
ZeroNode ==
  [page_type_ |-> "INVALID", size_ |-> 0, max_size_ |-> 0, parent_page_id_ |-> 0,
   page_id_ |-> 0, next_page_id_ |-> 0, array_ |-> [i \in Slots |-> <<ZeroKey, ZeroValue>>],
   has_record_ |-> FALSE, record_root_ |-> 0]

IsLeafPage(node) == node.page_type_ = "LEAF"

IsRootPage(node) == node.parent_page_id_ = INVALID_PAGE_ID

\* ceil(max_size / 2)
GetMinSize(node) == (node.max_size_ + 1) \div 2

\* comparator(a, b) <= 0 on integer keys
KeyLeq(a, b) == a <= b

\* ---------------------------------------------------------------- leaf page
LeafInit(node, page_id, parent_id, max_size) ==
  [node EXCEPT !.page_type_ = "LEAF", !.max_size_ = max_size, !.parent_page_id_ = parent_id,
               !.page_id_ = page_id, !.size_ = 0, !.next_page_id_ = INVALID_PAGE_ID]

RECURSIVE KeyIndexFrom(_, _, _, _, _)
KeyIndexFrom(node, key, l, r, ret) ==
  IF l > r THEN ret
  ELSE LET mid == (r - l) \div 2 + l IN
       IF KeyLeq(node.array_[mid][1], key) THEN KeyIndexFrom(node, key, mid + 1, r, mid)
       ELSE KeyIndexFrom(node, key, l, mid - 1, ret)

KeyIndex(node, key) == KeyIndexFrom(node, key, 0, node.size_ - 1, 0)

\* the node after the call, and the size the call returns
LeafInsert(node, key, value) ==
  LET insert_index == KeyIndex(node, key) IN
  IF node.array_[insert_index][1] = key THEN [node |-> node, size |-> node.size_]
  ELSE
    LET shifted == [i \in Slots |->
                      IF i > insert_index /\ i <= node.size_ THEN node.array_[i - 1]
                      ELSE IF i = insert_index THEN MappingDefault
                      ELSE node.array_[i]]
    IN [node |-> [node EXCEPT !.array_ = shifted, !.size_ = node.size_ + 1],
        size |-> node.size_ + 1]

LeafLookup(node, key) ==
  LET index == KeyIndex(node, key) IN
  IF index = node.size_ \/ node.array_[index][1] # key THEN [ok |-> FALSE, value |-> ZeroValue]
  ELSE [ok |-> TRUE, value |-> node.array_[index][2]]

\* CopyNFrom(items, size): items are the n slots of src from slot first on
CopyNFrom(node, src, first, n) ==
  [node EXCEPT !.array_ = [i \in Slots |->
                             IF i >= node.size_ /\ i < node.size_ + n
                               THEN src.array_[first + (i - node.size_)]
                               ELSE node.array_[i]],
               !.size_ = node.size_ + n]

\* MoveHalfTo: <<the node, the recipient>> after the call
MoveHalfTo(node, recipient) ==
  LET move_num == node.size_ - GetMinSize(node) IN
  <<[node EXCEPT !.size_ = node.size_ - move_num],
    CopyNFrom(recipient, node, GetMinSize(node), move_num)>>

\* ------------------------------------------------------------ internal page
InternalInit(node, page_id, parent_id, max_size) ==
  [node EXCEPT !.max_size_ = max_size, !.size_ = 0, !.parent_page_id_ = parent_id,
               !.page_id_ = page_id, !.page_type_ = "INTERNAL"]

RECURSIVE InternalLookupFrom(_, _, _, _, _)
InternalLookupFrom(node, key, l, r, ret) ==
  IF l > r THEN ret
  ELSE LET mid == (r - l) \div 2 + l IN
       IF KeyLeq(node.array_[mid][1], key) THEN InternalLookupFrom(node, key, mid + 1, r, mid)
       ELSE InternalLookupFrom(node, key, l, mid - 1, ret)

InternalLookup(node, key) == node.array_[InternalLookupFrom(node, key, 1, node.size_ - 1, 0)][2]

PopulateNewRoot(node, old_value, key, new_value) ==
  [node EXCEPT !.array_[0] = <<node.array_[0][1], old_value>>,
               !.array_[1] = <<key, new_value>>,
               !.size_ = 2]

\* index of the first slot below size_ that holds value, -1 if there is none
ValueIndex(node, value) ==
  IF \E i \in 0..(node.size_ - 1) : node.array_[i][2] = value
    THEN CHOOSE i \in 0..(node.size_ - 1) :
           /\ node.array_[i][2] = value
           /\ \A j \in 0..(i - 1) : node.array_[j][2] # value
    ELSE 0 - 1

InsertAfterNode(node, old_value, key, new_value) ==
  LET insert_index == ValueIndex(node, old_value) + 1 IN
  [node EXCEPT !.array_ = [i \in Slots |->
                             IF i > insert_index /\ i <= node.size_ THEN node.array_[i - 1]
                             ELSE IF i = insert_index THEN <<key, new_value>>
                             ELSE node.array_[i]],
               !.size_ = node.size_ + 1]

\* MoveHalfTo of an internal page: the upper size - min_size entries go to the
\* recipient, as on a leaf page
InternalMoveHalfTo(node, recipient) ==
  LET move_num == node.size_ - GetMinSize(node) IN
  <<[node EXCEPT !.size_ = node.size_ - move_num],
    CopyNFrom(recipient, node, GetMinSize(node), move_num)>>

\* ---------------------------------------------------- the tree and its pool
\* T: the tree's members, its BufferPoolManager (bpm), the bytes of the
\* pool's frames (mem) and of the pages on disk (tdisk), which bpm's reads,
\* writes and resets act on in the order bpm performs them.
TreeFrames == 0..(TreePoolSize - 1)

TreePool ==
  [pages_ |-> [f \in TreeFrames |-> PageDefault],
   free_list_ |-> [i \in 1..TreePoolSize |-> i - 1],
   page_table_ |-> HTInit(TreePoolSize),
   replacer_ |-> ReplacerInit(ReplacerK),
   next_page_id_ |-> 0,
   disk |-> EmptyFn]

\* one read, write or reset of the pool, on the page bytes
ApplyEvent(T, e) ==
  IF e.ev = "WritePage" THEN [T EXCEPT !.tdisk = Ext(T.tdisk, e.page, T.mem[e.frame])]
  ELSE IF e.ev = "ResetMemory" THEN [T EXCEPT !.mem[e.frame] = ZeroNode]
  ELSE IF e.ev = "ReadPage"
    THEN [T EXCEPT !.mem[e.frame] = IF e.page \in DOMAIN T.tdisk THEN T.tdisk[e.page] ELSE ZeroNode]
  ELSE T

RECURSIVE Replay(_, _, _)
Replay(T, io, i) ==
  IF i > Len(io) THEN T
  ELSE With([T1 \in {ApplyEvent(T, io[i])} |-> Replay(T1, io, i + 1)])

\* the tree after a call r of the pool
Pool(T, r) == [Replay(T, r.io, 1) EXCEPT !.bpm = r.S]

\* frame->GetPageId()
PageIdOf(T, f) == T.bpm.pages_[f].page_id_

\* buffer_pool_manager_->UnpinPage(page_id, is_dirty)
Unpin(T, page_id, is_dirty) ==
  With([r \in {UnpinPage(T.bpm, page_id, is_dirty)} |-> Pool(T, r)])

IsEmpty(T) == T.root_page_id_ = INVALID_PAGE_ID

\* out: "ok" the call returns; "throw" it throws std::runtime_error; "crash"
\* it dereferences the null page of a refused NewPage or FetchPage; "wild" it
\* reads, as a node, page bytes that no node was written to; "hang" it does
\* not leave its loop
Failed(out) == out # "ok"

UpdateRootPageId(T, insert_record) ==
  With([r \in {FetchPage(T.bpm, HEADER_PAGE_ID)} |->
  With([T1 \in {Pool(T, r)} |->
    IF ~r.ok THEN [T |-> T1, out |-> "crash"]
    ELSE
      LET h == T1.mem[r.frame]
          h1 == IF insert_record # 0
                  THEN (IF h.has_record_ THEN h
                        ELSE [h EXCEPT !.has_record_ = TRUE, !.record_root_ = T.root_page_id_])
                  ELSE (IF h.has_record_ THEN [h EXCEPT !.record_root_ = T.root_page_id_] ELSE h)
      IN [T |-> Unpin([T1 EXCEPT !.mem[r.frame] = h1], HEADER_PAGE_ID, TRUE), out |-> "ok"]])])

\* page: the frame of the Page FindLeaf returns
RECURSIVE Descend(_, _, _, _, _)
Descend(T, page, node, key, fuel) ==
  IF IsLeafPage(T.mem[node]) THEN [T |-> T, out |-> "ok", page |-> page]
  ELSE IF T.mem[node].page_type_ # "INTERNAL" THEN [T |-> T, out |-> "wild", page |-> page]
  ELSE IF fuel = 0 THEN [T |-> T, out |-> "hang", page |-> page]
  ELSE
    With([r \in {FetchPage(T.bpm, InternalLookup(T.mem[node], key))} |->
    With([T1 \in {Pool(T, r)} |->
      IF ~r.ok THEN [T |-> T1, out |-> "crash", page |-> NO_FRAME]
      ELSE Descend(T1, r.frame, page, key, fuel - 1)])])

FindLeaf(T, key) ==
  With([r \in {FetchPage(T.bpm, T.root_page_id_)} |->
  With([T1 \in {Pool(T, r)} |->
    IF ~r.ok THEN [T |-> T1, out |-> "crash", page |-> NO_FRAME]
    ELSE Descend(T1, r.frame, r.frame, key, 2 * TreePoolSize)])])

GetValue(T, key) ==
  With([fl \in {FindLeaf(T, key)} |->
    IF Failed(fl.out) THEN [T |-> fl.T, out |-> fl.out, ok |-> FALSE, value |-> ZeroValue]
    ELSE
      With([lk \in {LeafLookup(fl.T.mem[fl.page], key)} |->
        [T |-> Unpin(fl.T, PageIdOf(fl.T, fl.page), FALSE), out |-> "ok",
         ok |-> lk.ok, value |-> lk.value]])])

StartNewTree(T, key, value) ==
  With([r \in {NewPage(T.bpm)} |->
    IF ~r.ok THEN [T |-> Pool(T, r), out |-> "throw"]
    ELSE
      With([T1 \in {[Pool(T, r) EXCEPT !.root_page_id_ = r.page_id]} |->
      With([u \in {UpdateRootPageId(T1, 1)} |->
        IF Failed(u.out) THEN u
        ELSE
          With([root_node \in {LeafInit(u.T.mem[r.frame], T1.root_page_id_, INVALID_PAGE_ID, T.leaf_max_size_)} |->
            [T |-> Unpin([u.T EXCEPT !.mem[r.frame] = LeafInsert(root_node, key, value).node],
                         PageIdOf(u.T, r.frame), TRUE),
             out |-> "ok"]])])])])

\* node, new: the frames whose memory the node pointers point into
Split(T, node) ==
  With([r \in {NewPage(T.bpm)} |->
  With([T1 \in {Pool(T, r)} |->
    IF ~r.ok THEN [T |-> T1, out |-> "throw", new |-> NO_FRAME]
    ELSE
      With([old \in {T1.mem[node]} |->
      With([typed \in {[T1.mem[r.frame] EXCEPT !.page_type_ = old.page_type_]} |->
        IF IsLeafPage(old)
          THEN With([mv \in {MoveHalfTo(old, LeafInit(typed, r.page_id, old.parent_page_id_,
                                             T.leaf_max_size_))} |->
               With([new_leaf \in {[mv[2] EXCEPT !.next_page_id_ = mv[1].next_page_id_]} |->
                 [T |-> [T1 EXCEPT !.mem[node] = [mv[1] EXCEPT !.next_page_id_ = new_leaf.page_id_],
                                   !.mem[r.frame] = new_leaf],
                  out |-> "ok", new |-> r.frame]])])
          ELSE With([mv \in {InternalMoveHalfTo(old, InternalInit(typed, r.page_id, old.parent_page_id_,
                                                         T.internal_max_size_))} |->
                 [T |-> [T1 EXCEPT !.mem[node] = mv[1], !.mem[r.frame] = mv[2]],
                  out |-> "ok", new |-> node]])])])])])

\* UnpinPage(a, true); UnpinPage(b, true)
UnpinBoth(T, a, b) == With([T1 \in {Unpin(T, a, TRUE)} |-> Unpin(T1, b, TRUE)])

\* InsertIntoParent where old_node is the root
InsertIntoNewRoot(T, old_node, key, new_node) ==
  With([r \in {NewPage(T.bpm)} |->
    IF ~r.ok THEN [T |-> [Pool(T, r) EXCEPT !.root_page_id_ = INVALID_PAGE_ID], out |-> "crash"]
    ELSE
      With([T1 \in {[Pool(T, r) EXCEPT !.root_page_id_ = r.page_id]} |->
      With([new_root_node \in {PopulateNewRoot(InternalInit(T1.mem[r.frame], r.page_id, INVALID_PAGE_ID,
                                        T.internal_max_size_),
                           T1.mem[old_node].page_id_, key, T1.mem[new_node].page_id_)} |->
      With([T2 \in {[T1 EXCEPT !.mem[r.frame] = new_root_node]} |->
      With([T3 \in {[T2 EXCEPT !.mem[old_node].parent_page_id_ = r.page_id]} |->
        UpdateRootPageId([T3 EXCEPT !.mem[new_node].parent_page_id_ = r.page_id], 0)])])])])])

RECURSIVE InsertIntoParent(_, _, _, _, _)
InsertIntoParent(T, old_node, key, new_node, fuel) ==
  IF IsRootPage(T.mem[old_node]) THEN InsertIntoNewRoot(T, old_node, key, new_node)
  ELSE
    With([r \in {FetchPage(T.bpm, T.mem[old_node].parent_page_id_)} |->
    With([T1 \in {Pool(T, r)} |->
      IF ~r.ok THEN [T |-> T1, out |-> "crash"]
      ELSE
        With([parent_node \in {InsertAfterNode(T1.mem[r.frame], T1.mem[old_node].page_id_, key,
                             T1.mem[new_node].page_id_)} |->
        With([T2 \in {[T1 EXCEPT !.mem[r.frame] = parent_node]} |->
          IF parent_node.size_ < parent_node.max_size_
            THEN [T |-> Unpin(T2, parent_node.page_id_, TRUE), out |-> "ok"]
          ELSE IF fuel = 0 THEN [T |-> T2, out |-> "hang"]
          ELSE
            With([s \in {Split(T2, r.frame)} |->
              IF Failed(s.out) THEN [T |-> s.T, out |-> s.out]
              ELSE
                With([up \in {InsertIntoParent(s.T, r.frame, s.T.mem[s.new].array_[0][1], s.new,
                                      fuel - 1)} |->
                  IF Failed(up.out) THEN up
                  ELSE [T |-> UnpinBoth(up.T, up.T.mem[r.frame].page_id_,
                                        up.T.mem[s.new].page_id_),
                        out |-> "ok"]])])])])])])

\* ok: the value the call returns, where it returns
InsertIntoLeaf(T, key, value) ==
  With([fl \in {FindLeaf(T, key)} |->
    IF Failed(fl.out) THEN [T |-> fl.T, out |-> fl.out, ok |-> FALSE]
    ELSE
      With([ins \in {LeafInsert(fl.T.mem[fl.page], key, value)} |->
      With([T1 \in {[fl.T EXCEPT !.mem[fl.page] = ins.node]} |->
        IF ins.size = fl.T.mem[fl.page].size_
          THEN [T |-> Unpin(T1, PageIdOf(T1, fl.page), FALSE), out |-> "ok", ok |-> FALSE]
        ELSE IF ins.size < T.leaf_max_size_
          THEN [T |-> Unpin(T1, PageIdOf(T1, fl.page), TRUE), out |-> "ok", ok |-> TRUE]
        ELSE
          With([s \in {Split(T1, fl.page)} |->
            IF Failed(s.out) THEN [T |-> s.T, out |-> s.out, ok |-> FALSE]
            ELSE
              With([up \in {InsertIntoParent(s.T, fl.page, s.T.mem[s.new].array_[0][1], s.new,
                                    TreePoolSize)} |->
                IF Failed(up.out) THEN [T |-> up.T, out |-> up.out, ok |-> FALSE]
                ELSE [T |-> UnpinBoth(up.T, PageIdOf(up.T, fl.page), up.T.mem[s.new].page_id_),
                      out |-> "ok", ok |-> TRUE]])])])])])

Insert(T, key, value) ==
  IF IsEmpty(T)
    THEN With([st \in {StartNewTree(T, key, value)} |->
           [T |-> st.T, out |-> st.out, ok |-> ~Failed(st.out)]])
    ELSE InsertIntoLeaf(T, key, value)

\* ------------------------------------------------------- the tree's machine
\* The caller allocates the header page (page 0) on the pool and keeps it
\* pinned, then constructs the index with an INVALID root.
TreeNodeSizes == 3..MaxNodeSize

TreeInit(leaf_max_size, internal_max_size) ==
  /\ tree = [bpm |-> NewPage(TreePool).S,
             mem |-> [f \in TreeFrames |-> ZeroNode],
             tdisk |-> EmptyFn,
             root_page_id_ |-> INVALID_PAGE_ID,
             leaf_max_size_ |-> leaf_max_size,
             internal_max_size_ |-> internal_max_size]
  /\ inserted = EmptyFn
  /\ tree_last = [op |-> "init", key |-> ZeroKey, value |-> ZeroValue, out |-> "ok",
                  ok |-> TRUE, result |-> ZeroValue, n |-> 0, rising |-> TRUE]

\* One call on the tree by a caller that catches the exception of a call that
\* throws; a call that does not return ends the run. rising (a ghost): every
\* call so far was an Insert of a key above the zero key and above the keys of
\* all earlier calls.
TreeStep(T, op, key, value, out, ok, result) ==
  /\ tree_last.n < MaxTreeSteps
  /\ tree_last.out \in {"ok", "throw"}
  /\ tree' = T
  /\ tree_last' = [op |-> op, key |-> key, value |-> value, out |-> out, ok |-> ok,
                   result |-> result, n |-> tree_last.n + 1,
                   rising |-> /\ tree_last.rising
                              /\ op = "Insert"
                              /\ key > (IF tree_last.n = 0 THEN ZeroKey ELSE tree_last.key)]
  /\ UNCHANGED <<poolVars, lruVars, tableVars, threadVars>>

DoTreeInsert ==
  \E key \in Keys, value \in Values :
    \E r \in {Insert(tree, key, value)} :
    /\ TreeStep(r.T, "Insert", key, value, r.out, r.ok, ZeroValue)
    /\ inserted' = IF r.out = "ok" /\ key \notin DOMAIN inserted THEN Ext(inserted, key, value)
                   ELSE inserted

DoGetValue ==
  \E key \in Keys :
    \E r \in {GetValue(tree, key)} :
    /\ TreeStep(r.T, "GetValue", key, ZeroValue, r.out, r.ok, r.value)
    /\ UNCHANGED inserted

InitTree ==
  /\ PoolInit /\ LruInit(ReplacerK) /\ TableInit(BucketSize) /\ NoThreads
  /\ \E leaf_max_size \in TreeNodeSizes, internal_max_size \in TreeNodeSizes :
       TreeInit(leaf_max_size, internal_max_size)

NextTree == DoTreeInsert \/ DoGetValue

SpecTree == InitTree /\ [][NextTree]_vars

\* C20: B+ tree round trip. A returning Insert of a key that no earlier Insert
\* was given returns true; a returning GetValue of a key given to an earlier
\* Insert returns true and yields the value inserted with it, and a returning
\* GetValue of a key never inserted returns false.
C20_RoundTrip ==
  [][/\ (tree_last'.op = "Insert" /\ tree_last'.out = "ok"
          /\ tree_last'.key \notin DOMAIN inserted)
        => tree_last'.ok
     /\ (tree_last'.op = "GetValue" /\ tree_last'.out = "ok")
        => IF tree_last'.key \in DOMAIN inserted
             THEN tree_last'.ok /\ tree_last'.result = inserted[tree_last'.key]
             ELSE ~tree_last'.ok]_vars

\* ------------------------------------------------- the tree as its pages say
\* the pages the pool has allocated after the header page
NodePages(T) == 1..(T.bpm.next_page_id_ - 1)

Holding(T, page_id) == {f \in TreeFrames : T.bpm.pages_[f].page_id_ = page_id}

\* the bytes of a page: those of the frame that holds it, else those on disk
NodeOf(T, page_id) ==
  IF Holding(T, page_id) # {} THEN T.mem[CHOOSE f \in Holding(T, page_id) : TRUE]
  ELSE IF page_id \in DOMAIN T.tdisk THEN T.tdisk[page_id]
  ELSE ZeroNode

Nodes(T) == [p \in NodePages(T) |-> NodeOf(T, p)]

LeafPages(T) == {p \in NodePages(T) : IsLeafPage(NodeOf(T, p))}

\* the number of entries the leaves hold
StoredKeys(T) ==
  Cardinality({e \in LeafPages(T) \X Slots : e[2] < NodeOf(T, e[1]).size_})

\* C21: B+ tree duplicate rejection. A returning Insert of a key given to an
\* earlier Insert returns false and leaves every node and the root id as they
\* were; a returning Insert of a key not inserted before (the first key into
\* an empty tree included) returns true and the leaves hold one entry more.
C21_DuplicateRejection ==
  [][(tree_last'.op = "Insert" /\ tree_last'.out = "ok")
       => IF tree_last'.key \in DOMAIN inserted
            THEN /\ ~tree_last'.ok
                 /\ Nodes(tree') = Nodes(tree)
                 /\ tree'.root_page_id_ = tree.root_page_id_
            ELSE /\ tree_last'.ok
                 /\ StoredKeys(tree') = StoredKeys(tree) + 1]_vars

\* pin_count of a page: that of the frame that holds it, 0 when none does
PinOf(T, page_id) ==
  IF Holding(T, page_id) # {}
    THEN T.bpm.pages_[CHOOSE f \in Holding(T, page_id) : TRUE].pin_count_
    ELSE 0

\* C22: B+ tree pin discipline. When GetValue or Insert returns, every page of
\* the pool has the pin_count it had before the call.
C22_PinDiscipline ==
  [][(tree_last'.op \in {"Insert", "GetValue"} /\ tree_last'.out = "ok")
       => \A p \in {HEADER_PAGE_ID} \cup NodePages(tree') :
            PinOf(tree', p) = PinOf(tree, p)]_vars

\* the keys of a node in slot order
KeysOf(node) == [i \in 1..node.size_ |-> node.array_[i - 1][1]]

StrictlyIncreasing(ks) == \A i, j \in 1..Len(ks) : i < j => ks[i] < ks[j]

\* the leaf reached from a page through the first child of every internal
\* page, INVALID_PAGE_ID if the walk meets a page that is no node
RECURSIVE LeftMost(_, _, _)
LeftMost(T, page_id, fuel) ==
  IF IsLeafPage(NodeOf(T, page_id)) THEN page_id
  ELSE IF NodeOf(T, page_id).page_type_ = "INTERNAL" /\ fuel > 0
    THEN LeftMost(T, NodeOf(T, page_id).array_[0][2], fuel - 1)
  ELSE INVALID_PAGE_ID

\* the walk along next_page_id from a leaf: the pages visited, their keys in
\* visiting order, and whether the walk came to INVALID_PAGE_ID
RECURSIVE LeafChain(_, _, _)
LeafChain(T, page_id, fuel) ==
  IF page_id = INVALID_PAGE_ID THEN [pages |-> << >>, keys |-> << >>, ended |-> TRUE]
  ELSE IF fuel = 0 \/ ~IsLeafPage(NodeOf(T, page_id))
    THEN [pages |-> << >>, keys |-> << >>, ended |-> FALSE]
  ELSE With([rest \in {LeafChain(T, NodeOf(T, page_id).next_page_id_, fuel - 1)} |->
         [pages |-> <<page_id>> \o rest.pages,
          keys |-> KeysOf(NodeOf(T, page_id)) \o rest.keys,
          ended |-> rest.ended]])

ChainOf(T) == LeafChain(T, LeftMost(T, T.root_page_id_, TreePoolSize), 2 * TreePoolSize)

\* C23: B+ tree ordering. The keys of every leaf are strictly increasing, and
\* the walk from the leftmost leaf along next_page_id ends at INVALID, goes
\* through every leaf and yields the inserted keys, each once, in strictly
\* increasing order.
C23_Ordering ==
  ~IsEmpty(tree) =>
    /\ \A p \in LeafPages(tree) : StrictlyIncreasing(KeysOf(NodeOf(tree, p)))
    /\ ChainOf(tree).ended
    /\ Range(ChainOf(tree).pages) = LeafPages(tree)
    /\ StrictlyIncreasing(ChainOf(tree).keys)
    /\ Range(ChainOf(tree).keys) = DOMAIN inserted

\* the pages that hold a node, leaf or internal
TreeNodes(T) == {p \in NodePages(T) : NodeOf(T, p).page_type_ \in {"LEAF", "INTERNAL"}}

\* C24: B+ tree node fill. Every node other than the root holds at least
\* min_size = ceil(max_size / 2) entries.
C24_NodeFill ==
  \A p \in TreeNodes(tree) \ {tree.root_page_id_} :
    NodeOf(tree, p).size_ >= GetMinSize(NodeOf(tree, p))

\* C25: first leaf split (S5). With leaf_max_size 3 and increasing keys
\* inserted into an empty tree, the root is a single leaf after the first,
\* second and third insert; after the fourth the root is an internal node of
\* size 2 whose separator is the first key of the right leaf, its children
\* are the old and the new leaf, both have the root as parent, and the leaf
\* chain old -> new is in key order.
C25_FirstLeafSplit ==
  (tree.leaf_max_size_ = 3 /\ tree_last.rising /\ tree_last.out = "ok") =>
    /\ tree_last.n \in 1..3 =>
         /\ IsLeafPage(NodeOf(tree, tree.root_page_id_))
         /\ TreeNodes(tree) = {tree.root_page_id_}
    /\ tree_last.n = 4 =>
         LET root == NodeOf(tree, tree.root_page_id_)
             old == root.array_[0][2]
             new == root.array_[1][2]
         IN /\ root.page_type_ = "INTERNAL" /\ root.size_ = 2
            /\ LeafPages(tree) = {old, new} /\ old # new
            /\ root.array_[1][1] = NodeOf(tree, new).array_[0][1]
            /\ NodeOf(tree, old).parent_page_id_ = tree.root_page_id_
            /\ NodeOf(tree, new).parent_page_id_ = tree.root_page_id_
            /\ ChainOf(tree).pages = <<old, new>>
            /\ ChainOf(tree).ended
            /\ StrictlyIncreasing(ChainOf(tree).keys)

GetRootPageId(T) == 0

\* HeaderPage::GetRootId(index_name_): the record's root id, INVALID_PAGE_ID
\* when the header page has no record of the index
HeaderRootId(T) ==
  IF NodeOf(T, HEADER_PAGE_ID).has_record_ THEN NodeOf(T, HEADER_PAGE_ID).record_root_
  ELSE INVALID_PAGE_ID

\* C26: root id reporting. Between operations GetRootPageId() is the current
\* root page id (INVALID for an empty tree), IsEmpty() is true iff that id is
\* INVALID, and the header page's record of the index holds the same id.
C26_RootIdReporting ==
  tree_last.out = "ok" =>
    /\ GetRootPageId(tree) = tree.root_page_id_
    /\ IsEmpty(tree) <=> GetRootPageId(tree) = INVALID_PAGE_ID
    /\ HeaderRootId(tree) = GetRootPageId(tree)

\* the child page ids an internal page holds in its slots below size_
ChildAt(node, i) == node.array_[i][2]

IsInternal(T, page_id) == NodeOf(T, page_id).page_type_ = "INTERNAL"

\* the number of downward paths from a page to a target page, counted over
\* the child slots from index i on
RECURSIVE PathsFrom(_, _, _, _, _)
PathsFrom(T, page_id, target, i, fuel) ==
  IF i = 0 /\ page_id = target THEN 1
  ELSE IF ~IsInternal(T, page_id) \/ fuel = 0 \/ i >= NodeOf(T, page_id).size_ THEN 0
  ELSE PathsFrom(T, ChildAt(NodeOf(T, page_id), i), target, 0, fuel - 1)
       + PathsFrom(T, page_id, target, i + 1, fuel)

PathCount(T, target) == PathsFrom(T, T.root_page_id_, target, 0, MaxTreeSteps)

\* C27: internal-node split propagation. After a returning operation no
\* internal node holds one page id in two child slots, no node is its own
\* child, and every allocated node page is reachable from the root by
\* exactly one path.
C27_SplitPropagation ==
  (tree_last.out = "ok" /\ ~IsEmpty(tree)) =>
    /\ \A p \in TreeNodes(tree) : IsInternal(tree, p) =>
          /\ \A i, j \in 0..(NodeOf(tree, p).size_ - 1) :
                i # j => ChildAt(NodeOf(tree, p), i) # ChildAt(NodeOf(tree, p), j)
          /\ \A i \in 0..(NodeOf(tree, p).size_ - 1) : ChildAt(NodeOf(tree, p), i) # p
    /\ \A p \in TreeNodes(tree) : PathCount(tree, p) = 1

\* ------------------------------------------- threads on one buffer pool
Threads == 1..NumThreads

ThreadIdle ==
  [pc |-> "idle", op |-> "none", page_id |-> INVALID_PAGE_ID, is_dirty |-> FALSE,
   snap |-> << >>, ok |-> TRUE, frame |-> NO_FRAME, ret |-> INVALID_PAGE_ID]

NoRace == [on |-> FALSE, a |-> 0, b |-> 0, op |-> "none", page_id |-> INVALID_PAGE_ID]

\* the body of a public operation, run on the members S
Body(S, op, page_id, is_dirty, stray) ==
  IF op = "NewPage" THEN NewPage(S)
  ELSE IF op = "FetchPage" THEN FetchPage(S, page_id)
  ELSE IF op = "UnpinPage" THEN UnpinPage(S, page_id, is_dirty)
  ELSE IF op = "FlushPage" THEN FlushPage(S, page_id)
  ELSE IF op = "FlushAllPages" THEN FlushAllPages(S)
  ELSE DeletePage(S, page_id, stray)

\* thread u waits for the latch with the call (op, page_id), a NewPage or a
\* FetchPage of a page that is not resident
Racing(u, op, page_id) ==
  /\ latch_ = 0
  /\ threads[u].pc = "waiting"
  /\ threads[u].op = op
  /\ threads[u].page_id = page_id
  /\ op \in {"NewPage", "FetchPage"}
  /\ op = "FetchPage" => ~HTFind(page_table_, page_id)

\* thread t calls a public operation: it is queued on latch_
Call(t, op, page_id, is_dirty) ==
  /\ threads[t].pc = "idle"
  /\ steps < MaxCalls
  /\ op = "NewPage" =>
       next_page_id_ + Cardinality({u \in Threads : threads[u].pc \in {"waiting", "locked"}
                                                     /\ threads[u].op = "NewPage"}) <= MaxPageId
  /\ steps' = steps + 1
  /\ threads' = [threads EXCEPT ![t] = [ThreadIdle EXCEPT !.pc = "waiting", !.op = op,
                                                          !.page_id = page_id, !.is_dirty = is_dirty]]
  /\ serial' = [serial EXCEPT !.race =
                  IF \E u \in Threads \ {t} : Racing(u, op, page_id)
                    THEN [on |-> TRUE, a |-> CHOOSE u \in Threads \ {t} : Racing(u, op, page_id),
                          b |-> t, op |-> op, page_id |-> page_id]
                  ELSE NoRace]
  /\ UNCHANGED <<pages_, free_list_, page_table_, replacer_, next_page_id_, disk, last, latch_>>
  /\ UNCHANGED <<lruVars, tableVars, treeVars, writers>>

\* std::scoped_lock lock(latch_): the thread takes the mutex and starts to
\* read the members
Lock(t) ==
  /\ threads[t].pc = "waiting"
  /\ latch_ = 0
  /\ latch_' = t
  /\ threads' = [threads EXCEPT ![t].pc = "locked", ![t].snap = St]
  /\ UNCHANGED <<poolVars, serial, lruVars, tableVars, treeVars, writers>>

\* the operation's body: the members as it read them, changed as it changes
\* them; the ghost runs the same call on the serial pool
Run(t) ==
  /\ threads[t].pc = "locked"
  /\ \E stray \in (IF threads[t].op # "DeletePage" \/ Claimed(threads[t].snap)
                      \/ HTFind(threads[t].snap.page_table_, threads[t].page_id)
                   THEN {threads[t].snap.pages_[NO_FRAME]} ELSE StrayContents) :
       \E r \in {Body(threads[t].snap, threads[t].op, threads[t].page_id, threads[t].is_dirty, stray)},
          q \in {Body(serial.S, threads[t].op, threads[t].page_id, threads[t].is_dirty, stray)} :
         /\ pages_' = r.S.pages_
         /\ free_list_' = r.S.free_list_
         /\ page_table_' = r.S.page_table_
         /\ replacer_' = r.S.replacer_
         /\ next_page_id_' = r.S.next_page_id_
         /\ disk' = r.S.disk
         /\ threads' = [threads EXCEPT ![t].pc = "ran", ![t].snap = << >>, ![t].ok = r.ok,
                                       ![t].frame = r.frame, ![t].ret = r.page_id]
         /\ serial' = [serial EXCEPT !.S = q.S,
                                     !.agree = /\ serial.agree
                                               /\ r.ok = q.ok
                                               /\ r.frame = q.frame
                                               /\ r.page_id = q.page_id]
  /\ UNCHANGED <<last, steps, latch_, lruVars, tableVars, treeVars, writers>>

\* the lock's destructor and the return to the caller
Unlock(t) ==
  /\ threads[t].pc = "ran"
  /\ latch_ = t
  /\ latch_' = 0
  /\ threads' = [threads EXCEPT ![t].pc = "idle"]
  /\ last' = [op |-> threads[t].op, page_id |-> threads[t].ret, is_dirty |-> threads[t].is_dirty,
              ok |-> threads[t].ok, frame |-> threads[t].frame, io |-> << >>]
  /\ UNCHANGED <<pages_, free_list_, page_table_, replacer_, next_page_id_, disk, steps, serial>>
  /\ UNCHANGED <<lruVars, tableVars, treeVars, writers>>

CallNewPage(t) == Call(t, "NewPage", INVALID_PAGE_ID, FALSE)

CallFetchPage(t) == \E p \in PageIds : Call(t, "FetchPage", p, FALSE)

CallUnpinPage(t) == \E p \in PageIds, d \in BOOLEAN : Call(t, "UnpinPage", p, d)

CallFlushPage(t) == \E p \in PageIds : Call(t, "FlushPage", p, FALSE)

CallFlushAllPages(t) == Call(t, "FlushAllPages", INVALID_PAGE_ID, FALSE)

CallDeletePage(t) == \E p \in PageIds : Call(t, "DeletePage", p, FALSE)

InitThreads ==
  /\ PoolInit /\ LruInit(ReplacerK) /\ TableInit(BucketSize) /\ NoTree
  /\ latch_ = 0
  /\ threads = [t \in Threads |-> ThreadIdle]
  /\ serial = [S |-> St, agree |-> TRUE, race |-> NoRace]
  /\ writers = << >>

NextThreads ==
  \E t \in Threads :
    \/ CallNewPage(t)
    \/ CallFetchPage(t)
    \/ CallUnpinPage(t)
    \/ CallFlushPage(t)
    \/ CallFlushAllPages(t)
    \/ CallDeletePage(t)
    \/ Lock(t)
    \/ Run(t)
    \/ Unlock(t)

SpecThreads == InitThreads /\ [][NextThreads]_vars

\* both threads of the recorded race have returned, successfully
RaceOver(op) ==
  /\ serial.race.on
  /\ serial.race.op = op
  /\ threads[serial.race.a].pc = "idle" /\ threads[serial.race.a].ok
  /\ threads[serial.race.b].pc = "idle" /\ threads[serial.race.b].ok

\* every returned call returned what it returns in the serial run, and the
\* pool is in the state the serial run ends in
Linearizable == serial.agree /\ (latch_ = 0 => St = serial.S)

\* C28: buffer pool atomicity under concurrency. For every interleaving of
\* calls by the threads the return values and the pool state are those of the
\* calls run one after another in some order; two threads that fetch the same
\* non-resident page at once end with one frame holding it, pin_count 2; two
\* NewPage calls at once get different frames and different page ids.
C28_Atomicity ==
  /\ Linearizable
  /\ RaceOver("FetchPage") =>
       /\ Cardinality({f \in Frames : pages_[f].page_id_ = serial.race.page_id}) = 1
       /\ \A f \in Frames : pages_[f].page_id_ = serial.race.page_id => pages_[f].pin_count_ = 2
  /\ RaceOver("NewPage") =>
       /\ threads[serial.race.a].frame # threads[serial.race.b].frame
       /\ threads[serial.race.a].ret # threads[serial.race.b].ret

\* ------------------------------------------------ threads on one B+ tree
Writers == {1, 2}

WriterIdle ==
  [pc |-> "idle", key |-> ZeroKey, value |-> ZeroValue, root_page |-> NO_FRAME,
   new_page_id |-> INVALID_PAGE_ID, empty |-> FALSE, returned |-> FALSE, ok |-> FALSE, out |-> "ok"]

WriterStep(t, T, w) ==
  /\ tree' = T
  /\ writers' = [writers EXCEPT ![t] = w]
  /\ UNCHANGED <<inserted, tree_last, poolVars, lruVars, tableVars, latch_, threads, serial>>

\* Insert(key, value) is called with a key no other thread inserts, and tests
\* IsEmpty()
WriterInsert(t) ==
  /\ writers[t].pc = "idle"
  /\ ~writers[t].returned
  /\ \E key \in Keys \ {writers[u].key : u \in {v \in Writers : writers[v].pc # "idle" \/ writers[v].returned}},
        value \in Values :
       WriterStep(t, tree, [writers[t] EXCEPT !.key = key, !.value = value,
                                              !.empty = IsEmpty(tree),
                                              !.pc = IF IsEmpty(tree) THEN "NewPage" ELSE "InsertIntoLeaf"])

\* StartNewTree: buffer_pool_manager_->NewPage(&root_page_id_)
WriterNewPage_KeepsFirstRoot(t) ==
  /\ writers[t].pc = "NewPage"
  /\ \E r \in {NewPage(tree.bpm)} :
       IF ~r.ok
         THEN WriterStep(t, Pool(tree, r), [writers[t] EXCEPT !.pc = "idle", !.returned = TRUE,
                                                              !.out = "throw"])
       ELSE WriterStep(t, [Pool(tree, r) EXCEPT !.root_page_id_ =
                                                  IF IsEmpty(tree) THEN r.page_id ELSE tree.root_page_id_],
                       [writers[t] EXCEPT !.pc = "UpdateRootPageId", !.root_page = r.frame,
                                          !.new_page_id = r.page_id])

WriterNewPage(t) ==
  /\ writers[t].pc = "NewPage"
  /\ \E r \in {NewPage(tree.bpm)} :
       IF ~r.ok
         THEN WriterStep(t, Pool(tree, r), [writers[t] EXCEPT !.pc = "idle", !.returned = TRUE,
                                                              !.out = "throw"])
       ELSE WriterStep(t, [Pool(tree, r) EXCEPT !.root_page_id_ = r.page_id],
                       [writers[t] EXCEPT !.pc = "UpdateRootPageId", !.root_page = r.frame,
                                          !.new_page_id = r.page_id])

\* StartNewTree: UpdateRootPageId(1)
WriterUpdateRootPageId(t) ==
  /\ writers[t].pc = "UpdateRootPageId"
  /\ \E u \in {UpdateRootPageId(tree, 1)} :
       IF Failed(u.out)
         THEN WriterStep(t, u.T, [writers[t] EXCEPT !.pc = "idle", !.returned = TRUE, !.out = u.out])
       ELSE WriterStep(t, u.T, [writers[t] EXCEPT !.pc = "Init"])

\* StartNewTree: root_node->Init(root_page_id_, ...); root_node->Insert(key, value)
WriterInit(t) ==
  /\ writers[t].pc = "Init"
  /\ \E root_node \in {LeafInit(tree.mem[writers[t].root_page], tree.root_page_id_,
                                INVALID_PAGE_ID, tree.leaf_max_size_)} :
       WriterStep(t, [tree EXCEPT !.mem[writers[t].root_page] =
                                    LeafInsert(root_node, writers[t].key, writers[t].value).node],
                  [writers[t] EXCEPT !.pc = "UnpinPage"])

\* StartNewTree: UnpinPage(root_page->GetPageId(), true); Insert returns true
WriterUnpinPage(t) ==
  /\ writers[t].pc = "UnpinPage"
  /\ WriterStep(t, Unpin(tree, PageIdOf(tree, writers[t].root_page), TRUE),
                [writers[t] EXCEPT !.pc = "idle", !.returned = TRUE, !.ok = TRUE])

\* Insert on a tree that was not empty: return InsertIntoLeaf(key, value)
WriterInsertIntoLeaf(t) ==
  /\ writers[t].pc = "InsertIntoLeaf"
  /\ \E r \in {InsertIntoLeaf(tree, writers[t].key, writers[t].value)} :
       WriterStep(t, r.T, [writers[t] EXCEPT !.pc = "idle", !.returned = TRUE, !.ok = r.ok,
                                             !.out = r.out])

InitWriters ==
  /\ PoolInit /\ LruInit(ReplacerK) /\ TableInit(BucketSize)
  /\ latch_ = 0 /\ threads = << >> /\ serial = << >>
  /\ \E leaf_max_size \in TreeNodeSizes, internal_max_size \in TreeNodeSizes :
       TreeInit(leaf_max_size, internal_max_size)
  /\ writers = [t \in Writers |-> WriterIdle]

NextWriters ==
  \E t \in Writers :
    \/ WriterInsert(t)
    \/ WriterNewPage(t)
    \/ WriterUpdateRootPageId(t)
    \/ WriterInit(t)
    \/ WriterUnpinPage(t)
    \/ WriterInsertIntoLeaf(t)

SpecWriters == InitWriters /\ [][NextWriters]_vars

\* the tree as constructed, with the sizes of T
EmptyTree(T) == [T EXCEPT !.bpm = NewPage(TreePool).S, !.mem = [f \in TreeFrames |-> ZeroNode],
                          !.tdisk = EmptyFn, !.root_page_id_ = INVALID_PAGE_ID]

\* the tree after thread a's Insert and then thread b's, each run alone
SerialRun(a, b) ==
  With([first \in {Insert(EmptyTree(tree), writers[a].key, writers[a].value)} |->
    Insert(first.T, writers[b].key, writers[b].value).T])

\* both threads found the tree empty, and both calls are over
BothStartedNewTree == \A t \in Writers : writers[t].empty /\ writers[t].returned

LastNewPage == CHOOSE p \in {writers[t].new_page_id : t \in Writers} :
                 \A t \in Writers : writers[t].new_page_id <= p

\* C29: B+ tree writers are not serialized. When two threads insert distinct
\* keys and both find the tree empty, both Inserts return true and the tree
\* is the tree of neither order of the two calls run one after the other:
\* each thread has made a root leaf of its own, root_page_id_ is the one
\* allocated last, it holds the entry of one Insert at most, and the other
\* leaf is not reachable.
C29_WritersNotSerialized ==
  BothStartedNewTree =>
    /\ \A t \in Writers : writers[t].ok /\ writers[t].out = "ok"
    /\ tree # SerialRun(1, 2) /\ tree # SerialRun(2, 1)
    /\ Cardinality({writers[t].new_page_id : t \in Writers}) = 2
    /\ tree.root_page_id_ = LastNewPage
    /\ IsLeafPage(NodeOf(tree, tree.root_page_id_))
    /\ NodeOf(tree, tree.root_page_id_).size_ <= 1
    /\ PathCount(tree, LastNewPage) = 1
    /\ \A t \in Writers : writers[t].new_page_id # LastNewPage =>
         PathCount(tree, writers[t].new_page_id) = 0

C29_Reached ==
  /\ BothStartedNewTree
  /\ \A t \in Writers : writers[t].ok
  /\ NodeOf(tree, tree.root_page_id_).size_ = 1
  /\ Cardinality(LeafPages(tree)) = 2

\* the frames of the pool that hold a page
HoldingFrames == {f \in PoolFrames : pages_[f].page_id_ # INVALID_PAGE_ID}

\* C30: single residency. No page id is held by two different frames at
\* once, and the number of frames in the free list plus the number of frames
\* holding a page is pool_size, no frame counted in both.
C30_SingleResidency ==
  /\ \A f, g \in HoldingFrames : pages_[f].page_id_ = pages_[g].page_id_ => f = g
  /\ Len(free_list_) + Cardinality(HoldingFrames) = PoolSize
  /\ Range(free_list_) \cap HoldingFrames = {}

====
